---- MODULE Spec2Model ----
(***************************************************************************)
(* Training / compression / conversion scripts of the LLM keyboard.       *)
(*                                                                         *)
(* Spec          the five command-line scripts run one after the other on *)
(*               the models/ directory tree (entry points, language loop, *)
(*               one action per call of the per-language function).       *)
(* SpecCompress  ModelCompressor.compress, one action per step.           *)
(* SpecHandlers  the three operations that have an except clause           *)
(*               (ModelTrainer.train, convert_to_coreml, load_file), one   *)
(*               action per step and per handler.                          *)
(* SpecData      TrainingDataLoader on the training_data/ files: the two  *)
(*               load_*_data methods and get_train_val_split, one action  *)
(*               per call, with the global random generator.              *)
(* SpecLanguage  the methods that take a language, called with supported  *)
(*               and unsupported languages: get_all_sentences,            *)
(*               get_train_val_split, get_statistics, ModelTrainer().     *)
(* SpecTokenizer SimpleTokenizer: construction, the texts handed to       *)
(*               build_vocab, build_vocab.                                 *)
(* SpecTrain     the epoch loop of train_tiny_model, one action per epoch, *)
(*               with the checkpoint in models/<language>/tiny_final.     *)
(* SpecEncode    SimpleTokenizer.encode, and a training step on an item   *)
(*               of TextDataset (__getitem__, TinyKeyboardModel.forward). *)
(***************************************************************************)
EXTENDS Integers, Sequences, FiniteSets, TLC

\* ------------------------------------------------------------------ bounds
\* Script invocations in one behaviour.
MaxRuns == 3
\* Largest --epochs argument tried.
MaxEpochs == 1
\* Validation losses are 1..MaxLoss, or NaN.
MaxLoss == 1
\* Tensors of the model given to ModelCompressor hold 10..10*MaxTensor elements.
MaxTensor == 2
\* Lines of a training data file.
MaxLines == 2
\* Rewrites of a training data file in one behaviour.
MaxWrites == 1
\* Texts in the list given to build_vocab.
MaxTexts == 2
\* Largest small vocab_size a SimpleTokenizer is constructed with.
MaxVocabSize == 4
\* Largest max_length given to encode and to TextDataset.
MaxLength == 3
\* Largest num_epochs given to train_tiny_model in the epoch-level model.
MaxTrainEpochs == 3
\* Validation losses of an epoch there are 1..MaxValLoss, or NaN.
MaxValLoss == 2

\* ------------------------------------------------- the scripts' file system
VARIABLES
    dirs,       \* directories under models/: pairs <<language, directory>>
    files,      \* files under models/: <<language, directory, name>> -> content
    script,     \* the script that is running, or "none"
    arg,        \* its --language argument
    epochs,     \* its --epochs argument (train_tiny_model.py only)
    languages,  \* its list of languages
    active,     \* the language whose call is in progress, or "none"
    returned,   \* the languages whose call has returned, in order
    ret,        \* what the last call returned
    log,        \* what has happened so far: pairs <<event, language>>
    runs        \* scripts started so far

pipeVars == <<dirs, files, script, arg, epochs, languages, active, returned,
              ret, log, runs>>

\* --------------------------------------------- ModelCompressor.compress()
VARIABLES
    cPc,        \* the step compress() is about to run: "idle", ..., "done", "raised"
    cModel,     \* the model in memory
    cReport,    \* the sizes each step printed: records [step, before, after]
    cTrace,     \* the steps that have completed, in order
    cWritten    \* the files this run has written

compVars == <<cPc, cModel, cReport, cTrace, cWritten>>

\* ------------------------------------- the operations with an except clause
VARIABLES
    hOp,        \* the operation in progress: "none", "train", "convert", "load_file"
    hPc,        \* the step it is about to run, or "returned" / "raised"
    hFile,      \* load_file: the file at filepath
    hPos,       \* load_file: lines read so far
    hSentences, \* load_file: sentences
    hModelName, \* train: the name of the model that was loaded
    hCaught,    \* the except clause that has run, or "none"
    hPrinted,   \* what the except clause printed
    hAfter      \* the steps of the operation run since the exception was caught

handVars == <<hOp, hPc, hFile, hPos, hSentences, hModelName, hCaught, hPrinted,
              hAfter>>

\* ---------------------------------------------------- TrainingDataLoader
VARIABLES
    dFiles,     \* training_data/: <<language, category>> -> the file
    dWrites,    \* rewrites of a file so far
    rng,        \* state of the global generator of module random
    dResult,    \* what the last call returned, for the files as they are
    dPrev       \* what an earlier get_train_val_split returned, same files

dataVars == <<dFiles, dWrites, rng, dResult, dPrev>>

\* -------------------------------------------------------- SimpleTokenizer
VARIABLES
    tVocabSize, \* self.vocab_size
    tCharToId,  \* self.char_to_id
    tIdToChar,  \* self.id_to_char
    tTexts,     \* the list of texts put together for build_vocab
    tBuilt,     \* build_vocab has returned for these texts
    tOut        \* what the last call returned, since the vocabulary was built

tokVars == <<tVocabSize, tCharToId, tIdToChar, tTexts, tBuilt, tOut>>

\* ------------------------------------------- train_tiny_model's epoch loop
VARIABLES
    trPc,       \* "idle", "loop", "returned", "raised"
    trNum,      \* num_epochs
    trLosses,   \* val_loss of each epoch completed in this call
    trBest,     \* best_val_loss after each epoch completed in this call
    trSaves,    \* the epochs of this call that wrote the checkpoint
    trDisk,     \* models/<language>/tiny_final: who wrote it, at which epoch
    trFresh     \* this call started with no checkpoint on disk

trainVars == <<trPc, trNum, trLosses, trBest, trSaves, trDisk, trFresh>>

vars == <<pipeVars, compVars, handVars, dataVars, tokVars, trainVars>>

\* Each specification moves the variables of its own part only.
OnlyPipe == UNCHANGED <<compVars, handVars, dataVars, tokVars, trainVars>>
OnlyComp == UNCHANGED <<pipeVars, handVars, dataVars, tokVars, trainVars>>
OnlyHand == UNCHANGED <<pipeVars, compVars, dataVars, tokVars, trainVars>>
OnlyData == UNCHANGED <<pipeVars, compVars, handVars, tokVars, trainVars>>
OnlyTok == UNCHANGED <<pipeVars, compVars, handVars, dataVars, trainVars>>
OnlyTrain == UNCHANGED <<pipeVars, compVars, handVars, dataVars, tokVars>>

Langs == {"english", "japanese"}
LanguageArgs == {"english", "japanese", "both"}
Scripts == {"train_tiny_model", "compress_tiny_model", "convert_to_coreml",
            "train_model", "compress_model"}

\* languages = ['english', 'japanese'] if args.language == 'both' else [args.language]
LanguageListMut(a) ==
    IF a = "both" THEN <<"japanese", "english">> ELSE <<a>>
LanguageList(a) ==
    IF a = "both" THEN <<"english", "japanese">> ELSE <<a>>

\* The scripts that the "Next steps" of a script tell the user to run.
NextStepsPrinted(s) ==
    CASE s = "train_tiny_model"    -> {"compress_model"}
      [] s = "compress_tiny_model" -> {"convert_to_coreml"}
      [] s = "train_model"         -> {"compress_model", "convert_to_coreml"}
      [] s = "compress_model"      -> {"convert_to_coreml"}
      [] OTHER                     -> {}

\* ------------------------------------------------------ directory convention
\* models/<language> itself
RootDir == "."
\* train_tiny_model: output_dir = Path(f"models/{language}/tiny_final")
TinyOutputDirMut == "tiny_model"
TinyOutputDir == "tiny_final"
\* compress_tiny_model: model_path = Path(f"models/{language}/tiny_final")
TinyModelPath == "tiny_final"
\* compress_tiny_model: output_dir = Path(f"models/{language}/ios_ready")
IosOutputDir == "ios_ready"
\* convert_to_coreml: model_path = Path(f"models/{language}/ios_ready")
IosModelPath == "ios_ready"
\* convert_to_coreml: output_dir = Path(f"models/{language}/coreml")
CoremlDir == "coreml"
\* ModelTrainer.train: final_model_path = self.output_dir / 'final'
FinalOutputDir == "final"
\* compress_model.main: model_path = f"models/{lang}/final"
FinalModelPath == "final"
\* ModelCompressor.__init__: self.output_dir = Path(f"models/{language}/compressed")
CompressedDir == "compressed"

Exists(l, d) == <<l, d>> \in dirs
HasFile(l, d, n) == <<l, d, n>> \in DOMAIN files

\* Path.mkdir(parents=True, exist_ok=True)
Mkdir(ds, l, d) == ds \cup {<<l, RootDir>>, <<l, d>>}
\* open(..., 'w') / save_pretrained: create or overwrite
WriteFile(fs, l, d, n, c) == (<<l, d, n>> :> c) @@ fs

\* ------------------------------------------------------------ the tiny model
\* TinyKeyboardConfig as train_tiny_model builds it
ConfigVocabSize == 5000
ConfigHiddenSize == 128
ConfigNumLayers == 2
ConfigIntermediateSize == 256
ConfigMaxPositions == 64

\* Elements of the parameters of one TinyTransformerBlock
BlockParams ==
    LET h == ConfigHiddenSize
        i == ConfigIntermediateSize
    IN    (3 * h * h + 3 * h) + (h * h + h)   \* attention in_proj, out_proj
        + 2 * h + 2 * h                       \* norm1, norm2
        + (h * i + i) + (i * h + h)           \* ffn
\* Elements of the parameters of TinyKeyboardModel (it has no buffers)
TinyModelParams ==
      ConfigVocabSize * ConfigHiddenSize      \* token_embedding
    + ConfigMaxPositions * ConfigHiddenSize   \* position_embedding
    + ConfigNumLayers * BlockParams
    + 2 * ConfigHiddenSize                    \* norm
    + ConfigHiddenSize * ConfigVocabSize      \* lm_head, bias=False

\* Tensor.element_size()
ElementSize(dtype) == IF dtype = "float16" THEN 2 ELSE 4
\* model.half(): every floating point parameter becomes float16
HalfMut(dtype) == dtype
Half(dtype) == "float16"

\* get_model_size_mb, in bytes.  The code divides the byte count by 1024
\* twice in floating point; that scaling by 2^-20 is exact for these counts,
\* so sizes in MB compare as the byte counts do.
GetModelSizeBytes(dtype) == TinyModelParams * ElementSize(dtype)

\* ------------------------------------------------------------ file contents
ModelFile(dtype, base) == [kind |-> "model", dtype |-> dtype, base |-> base]
\* SimpleTokenizer.save
TokenizerJson ==
    [kind |-> "tokenizer", keys |-> {"char_to_id", "id_to_char", "vocab_size"}]
OtherFile(kind) == [kind |-> kind]
MetadataJson(orig, comp) ==
    [kind |-> "metadata", original_size |-> orig, compressed_size |-> comp]

\* ------------------------------------------------------------------ returns
NoSize == 0
Ret(fn, l, outcome, orig, comp) ==
    [fn |-> fn, lang |-> l, outcome |-> outcome,
     original_size |-> orig, compressed_size |-> comp]

\* --------------------------------------------------------- validation losses
NaN == -1
Inf == MaxLoss + 1
LossValues == (1..MaxLoss) \cup {NaN}
\* Python's a < b on floats: false whenever one side is NaN
Less(a, b) == a # NaN /\ b # NaN /\ a < b

\* int(len(sentences) * val_ratio) with the default val_ratio of 0.1
ValSize(n) == n \div 10
SentenceCounts == {0, 9, 10}

\* The epochs e.. of train_tiny_model's loop over the validation losses
\* `losses`: the best loss so far and the epoch whose model is on disk (0: none
\* saved by this call).
RECURSIVE TrainEpochs(_, _, _, _)
TrainEpochs(losses, e, best, saved) ==
    IF e > Len(losses) THEN [best |-> best, epoch |-> saved]
    ELSE IF Less(losses[e], best)
         THEN TrainEpochs(losses, e + 1, losses[e], e)
         ELSE TrainEpochs(losses, e + 1, best, saved)

\* ---------------------------------------------------------------- the loop
NoRet == Ret("none", "none", "none", NoSize, NoSize)

InitPipe ==
    /\ dirs = {}
    /\ files = <<>>
    /\ script = "none"
    /\ arg = "none"
    /\ epochs = 0
    /\ languages = <<>>
    /\ active = "none"
    /\ returned = <<>>
    /\ ret = NoRet
    /\ log = {}
    /\ runs = 0

\* python <script>.py --language <arg> [--epochs <n>]
StartScript(s, a, n) ==
    /\ script = "none"
    /\ runs < MaxRuns
    /\ script' = s
    /\ arg' = a
    /\ languages' = LanguageList(a)
    /\ epochs' = n
    /\ returned' = <<>>
    /\ runs' = runs + 1
    /\ ret' = NoRet
    /\ UNCHANGED <<dirs, files, active, log>>
    /\ OnlyPipe

\* for lang in languages: the next iteration starts
BeginCall ==
    /\ script # "none"
    /\ active = "none"
    /\ Len(returned) < Len(languages)
    /\ active' = languages[Len(returned) + 1]
    /\ UNCHANGED <<dirs, files, script, arg, epochs, languages, returned, ret,
                   log, runs>>
    /\ OnlyPipe

\* The process is gone, and its arguments and locals with it.
Exit ==
    /\ script' = "none"
    /\ arg' = "none"
    /\ epochs' = 0
    /\ languages' = <<>>
    /\ returned' = <<>>
    /\ active' = "none"
    /\ UNCHANGED runs

\* The loop is over: the script prints its summary and "Next steps" and exits.
FinishScript ==
    /\ script # "none"
    /\ active = "none"
    /\ Len(returned) = Len(languages)
    /\ Exit
    /\ UNCHANGED <<dirs, files, ret, log>>
    /\ OnlyPipe

\* The call for `active` is over; an exception nobody catches ends the script.
AfterCall(raised) ==
    /\ IF raised THEN Exit
       ELSE /\ active' = "none"
            /\ returned' = Append(returned, active)
            /\ UNCHANGED <<script, arg, epochs, languages, runs>>
    /\ OnlyPipe

\* train_tiny_model(lang, num_epochs) on n sentences; losses[e] is the
\* validation loss of epoch e; failEpoch > 0: that epoch raises while training.
TrainTinyCall(n, losses, failEpoch) ==
    /\ script = "train_tiny_model"
    /\ active # "none"
    /\ LET l == active
           nVal == ValSize(n)
           nTrain == n - nVal
           \* an empty training set makes the DataLoader raise; an empty
           \* validation set makes val_loss /= len(val_loader) raise
           dataOk == nTrain > 0 /\ (nVal > 0 \/ epochs = 0)
           ran == IF ~dataOk THEN 0
                  ELSE IF failEpoch = 0 THEN epochs ELSE failEpoch - 1
           r == TrainEpochs(SubSeq(losses, 1, ran), 1, Inf, 0)
           raised == ~dataOk \/ failEpoch # 0
           saved == r.epoch # 0
       IN /\ dirs' = IF saved THEN Mkdir(dirs, l, TinyOutputDir) ELSE dirs
          /\ files' = IF saved
                      THEN WriteFile(
                               WriteFile(files, l, TinyOutputDir, "model",
                                         ModelFile("float32", "tiny")),
                               l, TinyOutputDir, "tokenizer.json", TokenizerJson)
                      ELSE files
          /\ log' = log \cup (IF saved THEN {<<"tiny_saved", l>>} ELSE {})
                        \cup (IF raised THEN {} ELSE {<<"train_tiny_model", l>>})
          /\ ret' = Ret("train_tiny_model", l,
                        IF raised THEN "raised" ELSE "returned",
                        NoSize, NoSize)
          /\ AfterCall(raised)

\* compress_tiny_model(lang); okSteps of its steps (load, save, copy the
\* tokenizer, write the metadata) succeed before one raises (4: none raises).
CompressTinyCall(okSteps) ==
    /\ script = "compress_tiny_model"
    /\ active # "none"
    /\ LET l == active
           found == Exists(l, TinyModelPath)
           canLoad == HasFile(l, TinyModelPath, "model")
           canCopy == HasFile(l, TinyModelPath, "tokenizer.json")
           done == IF ~found \/ ~canLoad THEN 0
                   ELSE IF ~canCopy /\ okSteps > 2 THEN 2
                   ELSE okSteps
           m == files[<<l, TinyModelPath, "model">>]
           initial_size == GetModelSizeBytes(m.dtype)
           half_size == GetModelSizeBytes(Half(m.dtype))
           f1 == IF done >= 2
                 THEN WriteFile(files, l, IosOutputDir, "model",
                                ModelFile(Half(m.dtype), m.base))
                 ELSE files
           f2 == IF done >= 3
                 THEN WriteFile(f1, l, IosOutputDir, "tokenizer.json",
                                files[<<l, TinyModelPath, "tokenizer.json">>])
                 ELSE f1
           f3 == IF done >= 4
                 THEN WriteFile(f2, l, IosOutputDir, "metadata.json",
                                MetadataJson(initial_size, half_size))
                 ELSE f2
           raised == found /\ done < 4
       IN /\ dirs' = IF done >= 1 THEN Mkdir(dirs, l, IosOutputDir) ELSE dirs
          /\ files' = f3
          /\ log' = log \cup (IF found /\ done = 4
                              THEN {<<"compress_tiny_model", l>>} ELSE {})
          /\ ret' = IF ~found
                    THEN Ret("compress_tiny_model", l, "not_found", NoSize, NoSize)
                    ELSE IF raised
                    THEN Ret("compress_tiny_model", l, "raised", NoSize, NoSize)
                    ELSE Ret("compress_tiny_model", l, "metadata",
                             initial_size, half_size)
          /\ AfterCall(raised)

\* convert_to_coreml(lang); okSteps of its steps (load the model, read the
\* tokenizer, trace, convert, save the package, write the metadata) succeed
\* before one raises (6: none raises).  The last four are inside the try.
ConvertCall(okSteps) ==
    /\ script = "convert_to_coreml"
    /\ active # "none"
    /\ LET l == active
           found == Exists(l, IosModelPath)
           canLoad == HasFile(l, IosModelPath, "model")
           canRead == /\ HasFile(l, IosModelPath, "tokenizer.json")
                      /\ "vocab_size" \in files[<<l, IosModelPath, "tokenizer.json">>].keys
           done == IF ~found \/ ~canLoad THEN 0
                   ELSE IF ~canRead /\ okSteps > 1 THEN 1
                   ELSE okSteps
           raised == found /\ done < 2
           caught == found /\ done >= 2 /\ done < 6
           f1 == IF done >= 5
                 THEN WriteFile(files, l, CoremlDir, "mlpackage", OtherFile("mlpackage"))
                 ELSE files
           f2 == IF done >= 6
                 THEN WriteFile(f1, l, CoremlDir, "metadata.json", OtherFile("coreml_metadata"))
                 ELSE f1
       IN /\ dirs' = IF done >= 3 THEN Mkdir(dirs, l, CoremlDir) ELSE dirs
          /\ files' = f2
          /\ log' = log
          /\ ret' = Ret("convert_to_coreml", l,
                        IF ~found THEN "not_found"
                        ELSE IF raised THEN "raised"
                        ELSE IF caught THEN "caught" ELSE "converted",
                        NoSize, NoSize)
          /\ AfterCall(raised)

\* ModelTrainer._get_model_config: config['model_name']
ModelName(l) ==
    IF l = "english" THEN "distilgpt2" ELSE "rinna/japanese-gpt2-small"
\* ModelTrainer.train's except branch: "Using GPT2 as fallback..."
FallbackModelName == "gpt2"

\* ModelTrainer(lang).train(), then test_predictions with --test; okSteps of
\* train's steps (split the data, load the base model, build the datasets,
\* train, save the model, save the tokenizer, write config.json) succeed
\* before one raises (7: none raises).  baseFails: loading the configured base
\* model raises, and the handler loads the fallback instead.
TrainModelCall(okSteps, baseFails, testFails) ==
    /\ script = "train_model"
    /\ active # "none"
    /\ LET l == active
           base == IF baseFails THEN FallbackModelName ELSE ModelName(l)
           raised == okSteps < 7 \/ testFails
           d1 == Mkdir(dirs, l, RootDir)
           d3 == IF okSteps >= 5 THEN Mkdir(d1, l, FinalOutputDir) ELSE d1
           f1 == IF okSteps >= 5
                 THEN WriteFile(files, l, FinalOutputDir, "model",
                                ModelFile("float32", base))
                 ELSE files
           f2 == IF okSteps >= 6
                 THEN WriteFile(f1, l, FinalOutputDir, "tokenizer_files",
                                OtherFile("hf_tokenizer"))
                 ELSE f1
           f3 == IF okSteps >= 7
                 THEN WriteFile(f2, l, RootDir, "config.json", OtherFile("config"))
                 ELSE f2
       IN /\ dirs' = d3
          /\ files' = f3
          /\ log' = log
          /\ ret' = Ret("train_model", l,
                        IF okSteps < 7 THEN "raised" ELSE "returned",
                        NoSize, NoSize)
          /\ AfterCall(raised)

\* The body of compress_model.main's loop: the existence check, then
\* ModelCompressor(model_path, lang).compress(); okSteps of compress's steps
\* (load, step1..step4, write model.lzma, vocab.lzma, metadata.json) succeed
\* before one raises (8: none raises).
CompressModelCall(okSteps) ==
    /\ script = "compress_model"
    /\ active # "none"
    /\ LET l == active
           found == Exists(l, FinalModelPath)
           canLoad == /\ HasFile(l, FinalModelPath, "model")
                      /\ HasFile(l, FinalModelPath, "tokenizer_files")
           done == IF ~found \/ ~canLoad THEN 0 ELSE okSteps
           raised == found /\ done < 8
           f1 == IF done >= 6
                 THEN WriteFile(files, l, CompressedDir, "model.lzma", OtherFile("lzma"))
                 ELSE files
           f2 == IF done >= 7
                 THEN WriteFile(f1, l, CompressedDir, "vocab.lzma", OtherFile("lzma"))
                 ELSE f1
           f3 == IF done >= 8
                 THEN WriteFile(f2, l, CompressedDir, "metadata.json",
                                OtherFile("compress_metadata"))
                 ELSE f2
       IN /\ dirs' = IF found THEN Mkdir(dirs, l, CompressedDir) ELSE dirs
          /\ files' = f3
          /\ log' = log \cup (IF done = 8 THEN {<<"compress_model", l>>} ELSE {})
          /\ ret' = Ret("compress_model", l,
                        IF ~found THEN "not_found"
                        ELSE IF raised THEN "raised" ELSE "compressed",
                        NoSize, NoSize)
          /\ AfterCall(raised)

NextPipe ==
    \/ \E s \in Scripts, a \in LanguageArgs :
         \E n \in (IF s = "train_tiny_model" THEN 0..MaxEpochs ELSE {0}) :
            StartScript(s, a, n)
    \/ BeginCall
    \/ FinishScript
    \/ \E n \in SentenceCounts, failEpoch \in 0..epochs :
         \E losses \in [1..epochs -> LossValues] :
            TrainTinyCall(n, losses, failEpoch)
    \/ \E okSteps \in 0..4 : CompressTinyCall(okSteps)
    \/ \E okSteps \in 0..6 : ConvertCall(okSteps)
    \/ \E okSteps \in 0..7, baseFails \in BOOLEAN, testFails \in BOOLEAN :
         TrainModelCall(okSteps, baseFails, testFails)
    \/ \E okSteps \in 0..8 : CompressModelCall(okSteps)

\* =========================================== ModelCompressor.compress()
\* The model as get_model_size sees it: the elements of the weights of its
\* nn.Linear modules, of its other floating point tensors, the bytes of its
\* integer and boolean buffers, the dtype of its floating point tensors, and how
\* many of the nn.Linear weights are zero.
NoModel == [linear |-> 0, other |-> 0, intbytes |-> 0, dtype |-> "none", zeros |-> 0]
TensorSizes == {10 * k : k \in 0..MaxTensor}
\* What AutoModelForCausalLM.from_pretrained can return for a model saved by
\* Trainer.save_model: float32 weights.
LoadableModels ==
    {[linear |-> l, other |-> o, intbytes |-> b, dtype |-> "float32", zeros |-> 0] :
        l \in TensorSizes, o \in TensorSizes \ {0}, b \in {0, 8}}

\* ModelCompressor.get_model_size, in bytes (size_mb is this divided by 1024 twice)
GetModelSize(m) == (m.linear + m.other) * ElementSize(m.dtype) + m.intbytes

\* model.half()
HalfModel(m) == [m EXCEPT !.dtype = Half(m.dtype)]

\* prune.l1_unstructured(module, 'weight', amount) then prune.remove: the
\* round(amount * n) weights of smallest magnitude become zero; the tensor keeps
\* its shape.  amount = 0.3, and tensor sizes here are multiples of 10.
PruneAmountTenths == 3
PruneModel(m) ==
    LET k == (PruneAmountTenths * m.linear) \div 10
    IN [m EXCEPT !.zeros = IF k > m.zeros THEN k ELSE m.zeros]

CompressSteps == <<"load", "step1_quantization", "step2_pruning",
                   "step3_compress_vocabulary", "step4_final_compression">>

InitComp ==
    /\ cPc = "idle"
    /\ cModel = NoModel
    /\ cReport = <<>>
    /\ cTrace = <<>>
    /\ cWritten = {}

\* compressor.compress() is called
StartCompress ==
    /\ cPc \in {"idle", "done", "raised"}
    /\ cPc' = "load"
    /\ cModel' = NoModel
    /\ cReport' = <<>>
    /\ cTrace' = <<>>
    /\ cWritten' = {}
    /\ OnlyComp

\* model = AutoModelForCausalLM.from_pretrained(...); tokenizer = ...
LoadModel(m) ==
    /\ cPc = "load"
    /\ cModel' = m
    /\ cTrace' = Append(cTrace, "load")
    /\ cPc' = "step1_quantization"
    /\ UNCHANGED <<cReport, cWritten>>
    /\ OnlyComp

Step1Quantization ==
    /\ cPc = "step1_quantization"
    /\ cModel' = HalfModel(cModel)
    /\ cReport' = Append(cReport, [step |-> "step1_quantization",
                                   before |-> GetModelSize(cModel),
                                   after |-> GetModelSize(HalfModel(cModel))])
    /\ cTrace' = Append(cTrace, "step1_quantization")
    /\ cPc' = "step2_pruning"
    /\ UNCHANGED cWritten
    /\ OnlyComp

Step2Pruning ==
    /\ cPc = "step2_pruning"
    /\ cModel' = PruneModel(cModel)
    /\ cReport' = Append(cReport, [step |-> "step2_pruning",
                                   before |-> GetModelSize(cModel),
                                   after |-> GetModelSize(PruneModel(cModel))])
    /\ cTrace' = Append(cTrace, "step2_pruning")
    /\ cPc' = "step3_compress_vocabulary"
    /\ UNCHANGED cWritten
    /\ OnlyComp

\* A step of the mutant: the compressed vocabulary is written at once.
Step3CompressVocabularyMut ==
    /\ cPc = "step3_compress_vocabulary"
    /\ cTrace' = Append(cTrace, "step3_compress_vocabulary")
    /\ cPc' = "step4_final_compression"
    /\ cWritten' = cWritten \cup {"vocab.lzma"}
    /\ UNCHANGED <<cModel, cReport>>
    /\ OnlyComp
Step3CompressVocabulary ==
    /\ cPc = "step3_compress_vocabulary"
    /\ cTrace' = Append(cTrace, "step3_compress_vocabulary")
    /\ cPc' = "step4_final_compression"
    /\ UNCHANGED <<cModel, cReport, cWritten>>
    /\ OnlyComp

Step4FinalCompression ==
    /\ cPc = "step4_final_compression"
    /\ cTrace' = Append(cTrace, "step4_final_compression")
    /\ cPc' = "write_model"
    /\ UNCHANGED <<cModel, cReport, cWritten>>
    /\ OnlyComp

\* with open(model_file, 'wb') ...; with open(vocab_file, 'wb') ...;
\* with open(meta_file, 'w') ...
WriteOutput(pc, name, next) ==
    /\ cPc = pc
    /\ cWritten' = cWritten \cup {name}
    /\ cPc' = next
    /\ UNCHANGED <<cModel, cReport, cTrace>>
    /\ OnlyComp
WriteModelFile == WriteOutput("write_model", "model.lzma", "write_vocab")
WriteVocabFile == WriteOutput("write_vocab", "vocab.lzma", "write_meta")
WriteMetaFile == WriteOutput("write_meta", "metadata.json", "done")

\* The step about to run raises; compress() has no handler.
CompressRaises ==
    /\ cPc \notin {"idle", "done", "raised"}
    /\ cPc' = "raised"
    /\ UNCHANGED <<cModel, cReport, cTrace, cWritten>>
    /\ OnlyComp

NextComp ==
    \/ StartCompress
    \/ \E m \in LoadableModels : LoadModel(m)
    \/ Step1Quantization
    \/ Step2Pruning
    \/ Step3CompressVocabulary
    \/ Step4FinalCompression
    \/ WriteModelFile
    \/ WriteVocabFile
    \/ WriteMetaFile
    \/ CompressRaises

\* ============================================== training data files, lines
\* A line is the sequence of its characters, as iterating over the file yields
\* it: with its newline, but for a last line that has none.
Whitespace == {" ", "\n"}
RawLines == { <<"a", "\n">>, <<" ", "b", " ", "\n">>, <<"#", "c", "\n">>,
              <<"\n">>, <<" ", "#", "\n">>, <<"a">> }

\* str.strip()
RECURSIVE LStrip(_)
LStrip(line) ==
    IF line # <<>> /\ Head(line) \in Whitespace THEN LStrip(Tail(line)) ELSE line
RECURSIVE RStrip(_)
RStrip(line) ==
    IF line # <<>> /\ line[Len(line)] \in Whitespace
    THEN RStrip(SubSeq(line, 1, Len(line) - 1))
    ELSE line
Strip(line) == RStrip(LStrip(line))

\* A mutant of the test: comments are kept.
KeepLineMut(stripped) == stripped # <<>>
\* if line and not line.startswith('#')
KeepLine(stripped) == stripped # <<>> /\ Head(stripped) # "#"

\* The body of load_file's loop
ProcessLine(sentences, line) ==
    IF KeepLine(Strip(line)) THEN Append(sentences, Strip(line)) ELSE sentences

\* A file: missing, or its lines; errAt = k > 0: reading raises when line k is
\* due (k = 1: open() itself may be what raises), after k - 1 lines were read.
MissingFile == [exists |-> FALSE, lines |-> <<>>, errAt |-> 0]
RECURSIVE SeqsUpTo(_, _)
SeqsUpTo(S, n) ==
    IF n = 0 THEN {<<>>}
    ELSE LET shorter == SeqsUpTo(S, n - 1)
         IN shorter \cup {Append(q, x) : q \in shorter, x \in S}
Files ==
    {MissingFile} \cup
    {[exists |-> TRUE, lines |-> ls, errAt |-> k] :
        ls \in SeqsUpTo(RawLines, MaxLines), k \in 0..(MaxLines + 1)}

\* The exception due when pos lines of the file have been read, if any
DueAt(file, pos) ==
    (~file.exists /\ pos = 0) \/ (file.exists /\ file.errAt = pos + 1)

\* The exception that reading the file raises
ErrorKind(file) ==
    IF ~file.exists THEN "FileNotFoundError" ELSE "UnicodeDecodeError"
\* A mutant: an except clause that catches the named class only.
IsInstanceMut(kind, cls) == kind = cls
\* isinstance(exception, cls): what `except cls` catches
IsInstance(kind, cls) == cls = "Exception" \/ kind = cls

\* ============================== ModelTrainer.train, convert_to_coreml, load_file
InitHand ==
    /\ hOp = "none"
    /\ hPc = "returned"
    /\ hFile = MissingFile
    /\ hPos = 0
    /\ hSentences = <<>>
    /\ hModelName = "none"
    /\ hCaught = "none"
    /\ hPrinted = <<>>
    /\ hAfter = <<>>

\* A step of an operation: the steps run after an except clause are recorded.
Step(name, next) ==
    /\ hPc' = next
    /\ hAfter' = IF hCaught # "none" THEN Append(hAfter, name) ELSE hAfter

\* An except clause runs.
Catch(handler, message, next) ==
    /\ hCaught' = handler
    /\ hPrinted' = Append(hPrinted, message)
    /\ hPc' = next
    /\ UNCHANGED hAfter

StartOp(op, file) ==
    /\ hPc \in {"returned", "raised"}
    /\ hOp' = op
    /\ hPc' = CASE op = "train" -> "t_split"
                [] op = "convert" -> "c_check"
                [] OTHER -> "l_open"
    /\ hFile' = file
    /\ hPos' = 0
    /\ hSentences' = <<>>
    /\ hModelName' = "none"
    /\ hCaught' = "none"
    /\ hPrinted' = <<>>
    /\ hAfter' = <<>>
    /\ OnlyHand

\* ---- ModelTrainer.train
TrainSplit ==
    /\ hPc = "t_split"
    /\ Step("split", "t_load_base")
    /\ UNCHANGED <<hOp, hFile, hPos, hSentences, hModelName, hCaught, hPrinted>>
    /\ OnlyHand

\* try: AutoTokenizer / AutoModelForCausalLM.from_pretrained(config['model_name'])
TrainLoadBase(l) ==
    /\ hPc = "t_load_base"
    /\ Step("load_base", "t_datasets")
    /\ hModelName' = ModelName(l)
    /\ UNCHANGED <<hOp, hFile, hPos, hSentences, hCaught, hPrinted>>
    /\ OnlyHand

\* except Exception as e: print(...); print("Using GPT2 as fallback...")
TrainExcept ==
    /\ hPc = "t_load_base"
    /\ Catch("train_load", "Error loading model", "t_load_fallback")
    /\ UNCHANGED <<hOp, hFile, hPos, hSentences, hModelName>>
    /\ OnlyHand

\* ... still in the except clause: from_pretrained('gpt2')
TrainLoadFallback ==
    /\ hPc = "t_load_fallback"
    /\ Step("load_fallback", "t_datasets")
    /\ hModelName' = FallbackModelName
    /\ UNCHANGED <<hOp, hFile, hPos, hSentences, hCaught, hPrinted>>
    /\ OnlyHand

TrainRest ==
    /\ hPc \in {"t_datasets", "t_train", "t_save"}
    /\ CASE hPc = "t_datasets" -> Step("datasets", "t_train")
         [] hPc = "t_train" -> Step("train", "t_save")
         [] OTHER -> Step("save", "returned")
    /\ UNCHANGED <<hOp, hFile, hPos, hSentences, hModelName, hCaught, hPrinted>>
    /\ OnlyHand

\* ---- convert_to_coreml
\* found = FALSE: if not model_path.exists(): print; return
ConvertCheck(found) ==
    /\ hPc = "c_check"
    /\ Step("check", IF found THEN "c_load" ELSE "returned")
    /\ UNCHANGED <<hOp, hFile, hPos, hSentences, hModelName, hCaught, hPrinted>>
    /\ OnlyHand

ConvertStep ==
    /\ hPc \in {"c_load", "c_tokenizer", "c_trace", "c_convert", "c_save", "c_meta"}
    /\ CASE hPc = "c_load" -> Step("load", "c_tokenizer")
         [] hPc = "c_tokenizer" -> Step("tokenizer", "c_trace")
         [] hPc = "c_trace" -> Step("trace", "c_convert")
         [] hPc = "c_convert" -> Step("convert", "c_save")
         [] hPc = "c_save" -> Step("save", "c_meta")
         [] OTHER -> Step("meta", "returned")
    /\ UNCHANGED <<hOp, hFile, hPos, hSentences, hModelName, hCaught, hPrinted>>
    /\ OnlyHand

\* A mutant of the handler: it goes back to the trace.
ConvertExceptMut ==
    /\ hPc \in {"c_trace", "c_convert", "c_save", "c_meta"}
    /\ hCaught = "none"
    /\ Catch("convert", "CoreML conversion encountered an issue", "c_trace")
    /\ UNCHANGED <<hOp, hFile, hPos, hSentences, hModelName>>
    /\ OnlyHand
\* except Exception as e: print(...), raised by a step inside the try
ConvertExcept ==
    /\ hPc \in {"c_trace", "c_convert", "c_save", "c_meta"}
    /\ Catch("convert", "CoreML conversion encountered an issue", "returned")
    /\ UNCHANGED <<hOp, hFile, hPos, hSentences, hModelName>>
    /\ OnlyHand

\* A step outside every try raises: the exception leaves the operation.
Propagate ==
    /\ hPc \in {"t_split", "t_load_fallback", "t_datasets", "t_train", "t_save",
                "c_load", "c_tokenizer"}
    /\ hPc' = "raised"
    /\ UNCHANGED <<hOp, hFile, hPos, hSentences, hModelName, hCaught, hPrinted,
                   hAfter>>
    /\ OnlyHand

\* ---- TrainingDataLoader.load_file
\* The exception due at this point of the read, if any
Due == DueAt(hFile, hPos)

\* for line in f: one more line, or the end of the file: return sentences
LoadFileRead ==
    /\ hPc = "l_open"
    /\ ~Due
    /\ IF hPos < Len(hFile.lines)
       THEN /\ hSentences' = ProcessLine(hSentences, hFile.lines[hPos + 1])
            /\ hPos' = hPos + 1
            /\ Step("line", "l_open")
       ELSE /\ Step("return", "returned")
            /\ UNCHANGED <<hSentences, hPos>>
    /\ UNCHANGED <<hOp, hFile, hModelName, hCaught, hPrinted>>
    /\ OnlyHand

\* except FileNotFoundError: print / except Exception as e: print; then the
\* function goes on to its last line, return sentences
LoadFileExcept ==
    /\ hPc = "l_open"
    /\ Due
    /\ IF IsInstance(ErrorKind(hFile), "FileNotFoundError")
       THEN Catch("load_file_not_found", "Warning: File not found", "returned")
       ELSE IF IsInstance(ErrorKind(hFile), "Exception")
       THEN Catch("load_file_error", "Error loading", "returned")
       ELSE /\ hPc' = "raised"
            /\ UNCHANGED <<hCaught, hPrinted, hAfter>>
    /\ UNCHANGED <<hOp, hFile, hPos, hSentences, hModelName>>
    /\ OnlyHand

NextHand ==
    \/ \E op \in {"train", "convert"} : StartOp(op, MissingFile)
    \/ \E file \in Files : StartOp("load_file", file)
    \/ TrainSplit
    \/ \E l \in Langs : TrainLoadBase(l)
    \/ TrainExcept
    \/ TrainLoadFallback
    \/ TrainRest
    \/ \E found \in BOOLEAN : ConvertCheck(found)
    \/ ConvertStep
    \/ ConvertExcept
    \/ Propagate
    \/ LoadFileRead
    \/ LoadFileExcept

\* ======================================================= TrainingDataLoader
EnglishCategories ==
    <<"common_phrases", "technical_terms", "conversational", "formal_writing">>
JapaneseCategories ==
    <<"common_phrases", "business_japanese", "conversational", "mixed_language">>
Categories(l) == IF l = "english" THEN EnglishCategories ELSE JapaneseCategories
Range(q) == {q[i] : i \in 1..Len(q)}
DataKeys == {<<l, c>> : l \in Langs, c \in Range(EnglishCategories)
                                       \cup Range(JapaneseCategories)}
DataPaths == {k \in DataKeys : k[2] \in Range(Categories(k[1]))}

\* The files a category file is rewritten to: missing, lines with a comment
\* and an empty line, a read error at the second line, an error at open().
DataFiles ==
    { MissingFile,
      [exists |-> TRUE, errAt |-> 0,
       lines |-> << <<" ", "b", " ", "\n">>, <<"#", "c", "\n">>, <<"\n">>, <<"d">> >>],
      [exists |-> TRUE, lines |-> << <<"e", "\n">>, <<"f", "\n">> >>, errAt |-> 2],
      [exists |-> TRUE, lines |-> << <<"g", "\n">> >>, errAt |-> 1] }

\* training_data/ as shipped: every category file has a line of its own.
ShippedLine(c) ==
    CASE c = "common_phrases" -> <<"p", "\n">>
      [] c = "conversational" -> <<"q", "\n">>
      [] c \in {"technical_terms", "business_japanese"} -> <<"r", "\n">>
      [] OTHER -> <<"s", "\n">>
ShippedFiles ==
    [k \in DataPaths |->
        [exists |-> TRUE, lines |-> <<ShippedLine(k[2])>>, errAt |-> 0]]

\* load_file: the try block, up to its end or to the exception it raises
RECURSIVE ReadLines(_, _, _)
ReadLines(file, pos, sentences) ==
    IF DueAt(file, pos) THEN [exc |-> ErrorKind(file), sentences |-> sentences]
    ELSE IF pos < Len(file.lines)
    THEN ReadLines(file, pos + 1, ProcessLine(sentences, file.lines[pos + 1]))
    ELSE [exc |-> "none", sentences |-> sentences]

\* load_file: both except clauses fall through to `return sentences`
LoadFile(file) ==
    LET r == ReadLines(file, 0, <<>>)
    IN  IF r.exc = "none" \/ IsInstance(r.exc, "FileNotFoundError")
                           \/ IsInstance(r.exc, "Exception")
        THEN [raised |-> FALSE, sentences |-> r.sentences]
        ELSE [raised |-> TRUE, sentences |-> <<>>]

\* load_english_data / load_japanese_data: data[category] = load_file(filepath)
LoadData(fs, l) ==
    LET cats == Categories(l)
        loaded == [c \in Range(cats) |-> LoadFile(fs[<<l, c>>])]
        \* the files opened (a load_file that raises would end the loop, but
        \* none does)
        opened == {<<l, c>> : c \in Range(cats)}
    IN  IF \E c \in Range(cats) : loaded[c].raised
        THEN [raised |-> TRUE, data |-> <<>>, read |-> opened]
        ELSE [raised |-> FALSE, read |-> opened,
              data |-> [c \in Range(cats) |-> loaded[c].sentences]]

\* get_all_sentences: all_sentences.extend(...) over data.values(), which
\* come in the order the categories were inserted
RECURSIVE Extend(_, _, _)
Extend(data, cats, i) ==
    IF i > Len(cats) THEN <<>> ELSE data[cats[i]] \o Extend(data, cats, i + 1)
\* Languages the methods are called with: the supported ones, the command
\* line's 'both' unexpanded, a supported one misspelt.
UnsupportedLanguages == {"both", "English"}
LanguageInputs == Langs \cup UnsupportedLanguages

\* A mutant: `else` in place of `elif language == 'japanese'`.
GetAllSentencesMut(fs, l) ==
    LET d == LoadData(fs, IF l = "english" THEN "english" ELSE "japanese")
    IN  [raised |-> d.raised, exc |-> "none", read |-> d.read,
         sentences |-> IF d.raised THEN <<>>
                       ELSE Extend(d.data, Categories(l), 1)]
GetAllSentences(fs, l) ==
    IF l = "english" \/ l = "japanese"
    THEN LET d == LoadData(fs, l)
         IN  IF d.raised
             THEN [raised |-> TRUE, exc |-> "Exception", read |-> d.read,
                   sentences |-> <<>>]
             ELSE [raised |-> FALSE, exc |-> "none", read |-> d.read,
                   sentences |-> Extend(d.data, Categories(l), 1)]
    ELSE [raised |-> TRUE, exc |-> "ValueError", read |-> {}, sentences |-> <<>>]

\* ---- module random: a small generator stands for the Mersenne Twister; like
\* it, its output is a function of its state and seed() sets the whole state.
RngStates == 0..3
NextRng(s) == (5 * s + 3) % 4
SeedValue == 42
\* A mutant of seed(): the state is left as it is.
SeedMut(s, v) == s
\* random.seed(v), in state s
Seed(s, v) == v % 4

\* A mutant of the exchange: x[j] is copied over x[i] and x[i] is lost.
SwapMut(x, i, j) == [x EXCEPT ![i] = x[j]]
Swap(x, i, j) == [x EXCEPT ![i] = x[j], ![j] = x[i]]
\* random.shuffle(x): for i in reversed(range(1, len(x))):
\*     j = randbelow(i + 1); x[i], x[j] = x[j], x[i]        (i, j from 0)
RECURSIVE ShuffleFrom(_, _, _)
ShuffleFrom(x, i, s) ==
    IF i < 1 THEN [list |-> x, rng |-> s]
    ELSE LET s2 == NextRng(s)
             j == s2 % (i + 1)
         IN  ShuffleFrom(Swap(x, i + 1, j + 1), i - 1, s2)
Shuffle(x, s) == ShuffleFrom(x, Len(x) - 1, s)

\* val_ratio as a fraction <<numerator, denominator>>; 0.1 is the default
DefaultValRatio == <<1, 10>>
ValRatios == {DefaultValRatio, <<1, 2>>}
\* int(len(sentences) * val_ratio)
SplitValSize(n, ratio) == (n * ratio[1]) \div ratio[2]

GetTrainValSplit(fs, l, ratio, s) ==
    LET all == GetAllSentences(fs, l)
        sh == Shuffle(all.sentences, Seed(s, SeedValue))
        n == Len(sh.list)
        val_size == SplitValSize(n, ratio)
    IN  IF all.raised
        THEN [raised |-> TRUE, exc |-> all.exc, read |-> all.read,
              train |-> <<>>, val |-> <<>>, rng |-> s]
        ELSE [raised |-> FALSE, exc |-> "none", read |-> all.read,
              val |-> SubSeq(sh.list, 1, val_size),
              train |-> SubSeq(sh.list, val_size + 1, n),
              rng |-> sh.rng]

\* len(s.split()): the runs of characters other than whitespace
WordCount(sentence) ==
    Cardinality({i \in 1..Len(sentence) :
                    /\ sentence[i] \notin Whitespace
                    /\ (i = 1 \/ sentence[i - 1] \in Whitespace)})
\* sum(len(s) for s in sentences), sum(len(s.split()) for s in sentences)
RECURSIVE TotalChars(_)
TotalChars(q) == IF q = <<>> THEN 0 ELSE Len(Head(q)) + TotalChars(Tail(q))
RECURSIVE TotalWords(_)
TotalWords(q) == IF q = <<>> THEN 0 ELSE WordCount(Head(q)) + TotalWords(Tail(q))
\* get_statistics (the two averages are quotients of these)
GetStatistics(fs, l) ==
    LET all == GetAllSentences(fs, l)
    IN  IF all.raised
        THEN [raised |-> TRUE, exc |-> all.exc, read |-> all.read, stats |-> <<>>]
        ELSE [raised |-> FALSE, exc |-> "none", read |-> all.read,
              stats |-> [total_sentences |-> Len(all.sentences),
                         total_characters |-> TotalChars(all.sentences),
                         total_words |-> TotalWords(all.sentences)]]

\* ModelTrainer._get_model_config
GetModelConfig(l) ==
    IF l = "english" \/ l = "japanese"
    THEN [raised |-> FALSE, exc |-> "none", model_name |-> ModelName(l)]
    ELSE [raised |-> TRUE, exc |-> "ValueError", model_name |-> "none"]

NoResult ==
    [op |-> "none", lang |-> "none", ratio |-> <<0, 1>>, raised |-> FALSE,
     exc |-> "none", read |-> {}, data |-> <<>>, sentences |-> <<>>,
     stats |-> <<>>, made |-> "none", train |-> <<>>, val |-> <<>>]

InitData ==
    /\ dFiles = ShippedFiles
    /\ dWrites = 0
    /\ rng = 0
    /\ dResult = NoResult
    /\ dPrev = NoResult

\* Someone rewrites, damages or removes a category file.
WriteDataFile(k, file) ==
    /\ dWrites < MaxWrites
    /\ dWrites' = dWrites + 1
    /\ dFiles' = [dFiles EXCEPT ![k] = file]
    /\ dResult' = NoResult
    /\ dPrev' = NoResult
    /\ UNCHANGED rng
    /\ OnlyData

\* Other code uses the global generator.
UseRandom(s) ==
    /\ rng' = s
    /\ rng' # rng
    /\ UNCHANGED <<dFiles, dWrites, dResult, dPrev>>
    /\ OnlyData

LoadDataCall(l) ==
    /\ \E d \in {LoadData(dFiles, l)} :
           dResult' = [NoResult EXCEPT
                          !.op = IF l = "english" THEN "load_english_data"
                                 ELSE "load_japanese_data",
                          !.lang = l, !.raised = d.raised, !.read = d.read,
                          !.data = d.data]
    /\ UNCHANGED <<dFiles, dWrites, rng, dPrev>>
    /\ OnlyData

GetTrainValSplitCall(l, ratio) ==
    /\ \E r \in {GetTrainValSplit(dFiles, l, ratio, rng)} :
           /\ dResult' = [NoResult EXCEPT
                             !.op = "get_train_val_split", !.lang = l,
                             !.ratio = ratio, !.raised = r.raised,
                             !.exc = r.exc, !.read = r.read,
                             !.train = r.train, !.val = r.val]
           /\ rng' = r.rng
    /\ dPrev' = IF dResult.op = "get_train_val_split" THEN dResult ELSE dPrev
    /\ UNCHANGED <<dFiles, dWrites>>
    /\ OnlyData

GetAllSentencesCall(l) ==
    /\ \E r \in {GetAllSentences(dFiles, l)} :
           dResult' = [NoResult EXCEPT
                          !.op = "get_all_sentences", !.lang = l,
                          !.raised = r.raised, !.exc = r.exc, !.read = r.read,
                          !.sentences = r.sentences]
    /\ UNCHANGED <<dFiles, dWrites, rng, dPrev>>
    /\ OnlyData

GetStatisticsCall(l) ==
    /\ \E r \in {GetStatistics(dFiles, l)} :
           dResult' = [NoResult EXCEPT
                          !.op = "get_statistics", !.lang = l,
                          !.raised = r.raised, !.exc = r.exc, !.read = r.read,
                          !.stats = r.stats]
    /\ UNCHANGED <<dFiles, dWrites, rng, dPrev>>
    /\ OnlyData

\* ModelTrainer(language): the output directory is made, then the
\* configuration is looked up
NewModelTrainer(l) ==
    /\ LET c == GetModelConfig(l)
       IN  dResult' = [NoResult EXCEPT
                          !.op = "ModelTrainer", !.lang = l, !.made = l,
                          !.raised = c.raised, !.exc = c.exc]
    /\ UNCHANGED <<dFiles, dWrites, rng, dPrev>>
    /\ OnlyData

NextData ==
    \/ \E k \in DataPaths, file \in DataFiles : WriteDataFile(k, file)
    \/ \E s \in RngStates : UseRandom(s)
    \/ \E l \in Langs : LoadDataCall(l)
    \/ \E l \in Langs, ratio \in ValRatios : GetTrainValSplitCall(l, ratio)

NextLanguage ==
    \/ \E k \in DataPaths, file \in DataFiles : WriteDataFile(k, file)
    \/ \E l \in LanguageInputs : GetAllSentencesCall(l)
    \/ \E l \in LanguageInputs : GetTrainValSplitCall(l, DefaultValRatio)
    \/ \E l \in LanguageInputs : GetStatisticsCall(l)
    \/ \E l \in LanguageInputs : NewModelTrainer(l)

\* ========================================================== SimpleTokenizer
\* Texts are sequences of characters.
TextPool == { <<>>, <<"a">>, <<"b", "a">>, <<"c", "b", "a">>, <<"c", "c">>,
              <<"b", "c", "b">> }
VocabSizes == (2..MaxVocabSize) \cup {ConfigVocabSize}
PadToken == "<pad>"
UnkToken == "<unk>"

\* char_freq[char] = char_freq.get(char, 0) + 1, on a dict kept as the
\* sequence of its items <<char, count>> in insertion order
Bump(freq, ch) ==
    IF \E i \in 1..Len(freq) : freq[i][1] = ch
    THEN [i \in 1..Len(freq) |->
            IF freq[i][1] = ch THEN <<ch, freq[i][2] + 1>> ELSE freq[i]]
    ELSE Append(freq, <<ch, 1>>)
RECURSIVE CountText(_, _)
CountText(freq, text) ==
    IF text = <<>> THEN freq ELSE CountText(Bump(freq, Head(text)), Tail(text))
RECURSIVE CharFreq(_, _)
CharFreq(freq, texts) ==
    IF texts = <<>> THEN freq
    ELSE CharFreq(CountText(freq, Head(texts)), Tail(texts))

\* sorted(items, key=lambda x: x[1], reverse=True): a stable sort, so items
\* of equal count keep the order they had
InsertItem(q, item) ==
    LET k == Cardinality({i \in 1..Len(q) : q[i][2] >= item[2]})
    IN  SubSeq(q, 1, k) \o <<item>> \o SubSeq(q, k + 1, Len(q))
RECURSIVE SortInto(_, _)
SortInto(q, items) ==
    IF items = <<>> THEN q ELSE SortInto(InsertItem(q, Head(items)), Tail(items))
\* A mutant: the items are left in insertion order.
SortedByCountMut(items) == items
SortedByCount(items) == SortInto(<<>>, items)

\* q[:k]
SliceTo(q, k) ==
    IF k >= 0 THEN SubSeq(q, 1, IF k < Len(q) THEN k ELSE Len(q))
    ELSE SubSeq(q, 1, IF Len(q) + k > 0 THEN Len(q) + k ELSE 0)

TopChars(texts, vocab_size) ==
    LET sorted_chars == SortedByCount(CharFreq(<<>>, texts))
        top == SliceTo(sorted_chars, vocab_size - 2)
    IN  [i \in 1..Len(top) |-> top[i][1]]

\* self.pad_token_id, self.unk_token_id
PadTokenId == 0
UnkTokenId == 1

\* Texts given to encode: "z" is in no table.
EncodeTexts == { <<>>, <<"b", "a">>, <<"c", "z", "a", "b">> }
MaxLengths == 0..MaxLength

\* A mutant: the ids are truncated but never padded.
EncodeMut(char_to_id, text, max_length) ==
    LET ids == [i \in 1..Len(text) |->
                  IF text[i] \in DOMAIN char_to_id THEN char_to_id[text[i]]
                  ELSE UnkTokenId]
    IN  IF Len(ids) > max_length THEN SliceTo(ids, max_length) ELSE ids
\* SimpleTokenizer.encode
Encode(char_to_id, text, max_length) ==
    LET \* [self.char_to_id.get(char, self.unk_token_id) for char in text]
        ids == [i \in 1..Len(text) |->
                  IF text[i] \in DOMAIN char_to_id THEN char_to_id[text[i]]
                  ELSE UnkTokenId]
    IN  IF Len(ids) > max_length
        THEN SliceTo(ids, max_length)
        ELSE ids \o [i \in 1..(max_length - Len(ids)) |-> PadTokenId]

\* TextDataset.__getitem__ on the example made from text:
\* labels = input_ids.clone()
GetItem(char_to_id, text, max_length) ==
    LET input_ids == Encode(char_to_id, text, max_length)
    IN  [input_ids |-> input_ids, labels |-> input_ids]

\* TinyKeyboardModel.forward: CrossEntropyLoss over logits.view(-1, V) and
\* labels.view(-1) pairs the logits of position t with labels[t]; scored[t]
\* is the token the logits of position t are scored against.
ForwardScored(input_ids, labels) == [t \in 1..Len(input_ids) |-> labels[t]]

NoOut == [op |-> "none", text |-> <<>>, max_length |-> 0, ids |-> <<>>,
          input_ids |-> <<>>, labels |-> <<>>, scored |-> <<>>]

InitTok ==
    /\ tOut = NoOut
    /\ tVocabSize = ConfigVocabSize
    /\ tCharToId = <<>>
    /\ tIdToChar = <<>>
    /\ tTexts = <<>>
    /\ tBuilt = FALSE

\* SimpleTokenizer(vocab_size=v)
NewTokenizer(v) ==
    /\ tVocabSize' = v
    /\ tCharToId' = <<>>
    /\ tIdToChar' = <<>>
    /\ tTexts' = <<>>
    /\ tBuilt' = FALSE
    /\ tOut' = NoOut
    /\ OnlyTok

\* train_texts + val_texts grows by a text.
AddText(text) ==
    /\ Len(tTexts) < MaxTexts
    /\ tTexts' = Append(tTexts, text)
    /\ tBuilt' = FALSE
    /\ tOut' = NoOut
    /\ UNCHANGED <<tVocabSize, tCharToId, tIdToChar>>
    /\ OnlyTok

\* tokenizer.build_vocab(texts)
BuildVocab ==
    /\ LET top_chars == TopChars(tTexts, tVocabSize)
           \* for i, char in enumerate(top_chars, start=2)
           IdOf(c) == 1 + CHOOSE i \in 1..Len(top_chars) : top_chars[i] = c
       IN  /\ tCharToId' =
                 [c \in {PadToken, UnkToken} \cup Range(top_chars) |->
                    IF c = PadToken THEN 0 ELSE IF c = UnkToken THEN 1 ELSE IdOf(c)]
           /\ tIdToChar' =
                 [i \in 0..(Len(top_chars) + 1) |->
                    IF i = 0 THEN PadToken ELSE IF i = 1 THEN UnkToken
                    ELSE top_chars[i - 1]]
    /\ tBuilt' = TRUE
    /\ tOut' = NoOut
    /\ UNCHANGED <<tVocabSize, tTexts>>
    /\ OnlyTok

\* tokenizer.encode(text, max_length); the program encodes once the vocabulary
\* is built
EncodeCall(text, max_length) ==
    /\ tBuilt
    /\ tOut' = [NoOut EXCEPT !.op = "encode", !.text = text,
                             !.max_length = max_length,
                             !.ids = Encode(tCharToId, text, max_length)]
    /\ UNCHANGED <<tVocabSize, tCharToId, tIdToChar, tTexts, tBuilt>>
    /\ OnlyTok

\* One step of the training loop on the item made from text:
\* batch = dataset[idx]; model(batch['input_ids'], labels=batch['labels'])
TrainStep(text, max_length) ==
    /\ tBuilt
    /\ \E item \in {GetItem(tCharToId, text, max_length)} :
           tOut' = [NoOut EXCEPT
                       !.op = "train_step", !.text = text,
                       !.max_length = max_length,
                       !.input_ids = item.input_ids, !.labels = item.labels,
                       !.scored = ForwardScored(item.input_ids, item.labels)]
    /\ UNCHANGED <<tVocabSize, tCharToId, tIdToChar, tTexts, tBuilt>>
    /\ OnlyTok

NextEncode ==
    \/ \E v \in VocabSizes : NewTokenizer(v)
    \/ \E text \in TextPool : AddText(text)
    \/ BuildVocab
    \/ \E text \in EncodeTexts, n \in MaxLengths : EncodeCall(text, n)
    \/ \E text \in EncodeTexts, n \in MaxLengths : TrainStep(text, n)

NextTok ==
    \/ \E v \in VocabSizes : NewTokenizer(v)
    \/ \E text \in TextPool : AddText(text)
    \/ BuildVocab

\* ============================================ train_tiny_model's epoch loop
ValLosses == (1..MaxValLoss) \cup {NaN}
\* float('inf'): above every loss
InfLoss == MaxValLoss + 1
NoCheckpoint == [by |-> "none", epoch |-> 0]

InitTrain ==
    /\ trPc = "idle"
    /\ trNum = 0
    /\ trLosses = <<>>
    /\ trBest = <<>>
    /\ trSaves = <<>>
    /\ trDisk = NoCheckpoint
    /\ trFresh = TRUE

\* best_val_loss
BestValLoss == IF trBest = <<>> THEN InfLoss ELSE trBest[Len(trBest)]

\* train_tiny_model(language, num_epochs=n), up to best_val_loss = float('inf')
StartTrain(n) ==
    /\ trPc \in {"idle", "returned", "raised"}
    /\ trPc' = "loop"
    /\ trNum' = n
    /\ trLosses' = <<>>
    /\ trBest' = <<>>
    /\ trSaves' = <<>>
    /\ trFresh' = (trDisk.by = "none")
    /\ trDisk' = IF trDisk.by = "none" THEN trDisk
                 ELSE [by |-> "earlier", epoch |-> 0]
    /\ OnlyTrain

\* Someone removes models/<language>/tiny_final between two calls.
RemoveCheckpoint ==
    /\ trPc \in {"returned", "raised"}
    /\ trDisk.by # "none"
    /\ trDisk' = NoCheckpoint
    /\ trPc' = "idle"
    /\ UNCHANGED <<trNum, trLosses, trBest, trSaves, trFresh>>
    /\ OnlyTrain

\* One epoch: train, validate, if val_loss < best_val_loss: save
TrainEpoch(val_loss) ==
    /\ trPc = "loop"
    /\ Len(trLosses) < trNum
    /\ trLosses' = Append(trLosses, val_loss)
    /\ IF Less(val_loss, BestValLoss)
       THEN /\ trBest' = Append(trBest, val_loss)
            /\ trSaves' = Append(trSaves, Len(trLosses) + 1)
            /\ trDisk' = [by |-> "this", epoch |-> Len(trLosses) + 1]
       ELSE /\ trBest' = Append(trBest, BestValLoss)
            /\ UNCHANGED <<trSaves, trDisk>>
    /\ UNCHANGED <<trPc, trNum, trFresh>>
    /\ OnlyTrain

\* An epoch raises (an empty validation set makes val_loss /= len(val_loader)
\* raise ZeroDivisionError): nothing catches it.
TrainEpochRaises ==
    /\ trPc = "loop"
    /\ Len(trLosses) < trNum
    /\ trPc' = "raised"
    /\ UNCHANGED <<trNum, trLosses, trBest, trSaves, trDisk, trFresh>>
    /\ OnlyTrain

\* The loop is over: print "Training complete!", return model, tokenizer
TrainReturn ==
    /\ trPc = "loop"
    /\ Len(trLosses) = trNum
    /\ trPc' = "returned"
    /\ UNCHANGED <<trNum, trLosses, trBest, trSaves, trDisk, trFresh>>
    /\ OnlyTrain

NextTrain ==
    \/ \E n \in 0..MaxTrainEpochs : StartTrain(n)
    \/ RemoveCheckpoint
    \/ \E val_loss \in ValLosses : TrainEpoch(val_loss)
    \/ TrainEpochRaises
    \/ TrainReturn

\* ======================================================== specifications
Init == InitPipe /\ InitComp /\ InitHand /\ InitData /\ InitTok
        /\ InitTrain

Spec == Init /\ [][NextPipe]_vars
SpecCompress == Init /\ [][NextComp]_vars
SpecHandlers == Init /\ [][NextHand]_vars
SpecData == Init /\ [][NextData]_vars
SpecLanguage == Init /\ [][NextLanguage]_vars
SpecTokenizer == Init /\ [][NextTok]_vars
SpecEncode == Init /\ [][NextEncode]_vars
SpecTrain == Init /\ [][NextTrain]_vars

\* ============================================================== claims, Spec

\* C1: once train_tiny_model has saved a best model for a language,
\* compress_tiny_model for that language does not take its 'Model not found'
\* branch; and once compress_tiny_model has returned metadata for a language,
\* the directory convert_to_coreml reads for it exists and holds the saved
\* model and a tokenizer.json with a 'vocab_size' key, so that convert_to_coreml
\* does not take its 'Model not found' branch either.
C1_HandOff ==
    \A l \in Langs :
        /\ (/\ <<"tiny_saved", l>> \in log
            /\ ret.fn = "compress_tiny_model"
            /\ ret.lang = l)
           => ret.outcome # "not_found"
        /\ <<"compress_tiny_model", l>> \in log
           => /\ Exists(l, IosModelPath)
              /\ HasFile(l, IosModelPath, "model")
              /\ HasFile(l, IosModelPath, "tokenizer.json")
              /\ "vocab_size" \in files[<<l, IosModelPath, "tokenizer.json">>].keys
              /\ (ret.fn = "convert_to_coreml" /\ ret.lang = l)
                 => ret.outcome # "not_found"
\* The whole chain has run: train, compress, convert.
C1_Witness ==
    /\ ret.fn = "convert_to_coreml"
    /\ ret.outcome = "converted"
    /\ <<"compress_tiny_model", ret.lang>> \in log
    /\ <<"tiny_saved", ret.lang>> \in log

\* C2: the stage that a script's "Next steps" name finds its input: after
\* train_tiny_model has completed (and saved a model) for a language,
\* compress_model finds the trained model of that language; after compress_model
\* has completed for a language, convert_to_coreml finds the compressed model.
C2_NextStepsFindInput ==
    \A l \in Langs :
        /\ (/\ <<"train_tiny_model", l>> \in log
            /\ <<"tiny_saved", l>> \in log
            /\ ret.fn \in NextStepsPrinted("train_tiny_model")
            /\ ret.lang = l)
           => ret.outcome # "not_found"
        /\ (/\ <<"compress_model", l>> \in log
            /\ ret.fn \in NextStepsPrinted("compress_model")
            /\ ret.lang = l)
           => ret.outcome # "not_found"

\* C4: whenever compress_tiny_model returns metadata for a language,
\* models/<language>/ios_ready holds the model, tokenizer.json and
\* metadata.json, and the reported compressed size is strictly smaller than the
\* reported original size.
C4_CompressTinyOutput ==
    (ret.fn = "compress_tiny_model" /\ ret.outcome = "metadata")
    => /\ Exists(ret.lang, "ios_ready")
       /\ HasFile(ret.lang, "ios_ready", "model")
       /\ HasFile(ret.lang, "ios_ready", "tokenizer.json")
       /\ HasFile(ret.lang, "ios_ready", "metadata.json")
       /\ files[<<ret.lang, "ios_ready", "metadata.json">>]
            = MetadataJson(ret.original_size, ret.compressed_size)
       /\ ret.compressed_size < ret.original_size
C4_Witness ==
    /\ ret.fn = "compress_tiny_model"
    /\ ret.outcome = "metadata"
    /\ ret.original_size > 0

\* C7: with '--language both' a script works on english and then on japanese,
\* the call for japanese starting only after the call for english has returned;
\* with a single language it works on that language only; and a script that
\* reaches the end of its loop has had a call return for each of its languages,
\* in that order.
C7_Order ==
    script # "none" =>
        /\ arg = "both" =>
              /\ returned \in {<<>>, <<"english">>, <<"english", "japanese">>}
              /\ active \in {"none", "english", "japanese"}
              /\ active = "english" => returned = <<>>
              /\ active = "japanese" => returned = <<"english">>
        /\ arg # "both" =>
              /\ returned \in {<<>>, <<arg>>}
              /\ active \in {"none", arg}
              /\ active = arg => returned = <<>>
C7_EndOfLoop ==
    (script # "none" /\ active = "none" /\ script' = "none")
    => returned = (IF arg = "both" THEN <<"english", "japanese">> ELSE <<arg>>)
C7_LanguageLoop == []C7_Order /\ [][C7_EndOfLoop]_vars
C7_Witness ==
    /\ script # "none"
    /\ arg = "both"
    /\ active = "japanese"
    /\ returned = <<"english">>

\* ====================================================== claims, SpecCompress

\* C5: the half-precision step and the pruning step of ModelCompressor.compress
\* each report a size after the step that is strictly smaller than the size
\* before it.
C5_StepsReduceSize ==
    \A i \in 1..Len(cReport) : cReport[i].after < cReport[i].before

\* C6: compress runs load, half-precision cast, pruning, vocabulary compression
\* and final compression once each and in that order, and writes model.lzma,
\* vocab.lzma and metadata.json only after all five have completed: a run in
\* which a step raised has written none of them, and a run that is done has
\* written all three.
C6_LinearThenWrite ==
    /\ Len(cTrace) <= Len(CompressSteps)
    /\ cTrace = SubSeq(CompressSteps, 1, Len(cTrace))
    /\ cWritten # {} => cTrace = CompressSteps
    /\ (cPc = "raised" /\ cTrace # CompressSteps) => cWritten = {}
    /\ cPc = "done" =>
          /\ cTrace = CompressSteps
          /\ cWritten = {"model.lzma", "vocab.lzma", "metadata.json"}
\* A step (the final compression) has raised after the others completed.
C6_Witness ==
    /\ cPc = "raised"
    /\ Len(cTrace) = 4
    /\ cWritten = {}

\* ====================================================== claims, SpecHandlers

\* C3 as stated: an except clause only prints and the operation then returns;
\* no step of the operation runs after an exception was caught.
C3_HandlersOnlyReturn ==
    hCaught # "none" => (hAfter = <<>> /\ hPc = "returned")

\* C3 as amended: the except clauses of convert_to_coreml and load_file print
\* one message and the operation then returns without running another step;
\* the except clause of ModelTrainer.train prints, loads 'gpt2' in place of the
\* configured base model and train goes on with the datasets, the training and
\* the save.
C3_HandlersAmended ==
    /\ hCaught \in {"convert", "load_file_not_found", "load_file_error"}
       => /\ hAfter = <<>>
          /\ hPc = "returned"
          /\ Len(hPrinted) = 1
    /\ hCaught = "train_load"
       => /\ Len(hAfter) <= 4
          /\ hAfter = SubSeq(<<"load_fallback", "datasets", "train", "save">>,
                             1, Len(hAfter))
          /\ hAfter # <<>> => hModelName = "gpt2"
          /\ hPc = "returned" => Len(hAfter) = 4
\* train has returned after its except clause loaded the fallback.
C3_Witness ==
    /\ hOp = "train"
    /\ hCaught = "train_load"
    /\ hPc = "returned"
    /\ hModelName = "gpt2"

\* A line without the whitespace before its first and after its last
\* character that is not whitespace
Stripped(line) ==
    LET solid == {i \in 1..Len(line) : line[i] \notin {" ", "\n"}}
    IN  IF solid = {} THEN <<>>
        ELSE SubSeq(line, CHOOSE i \in solid : \A j \in solid : i <= j,
                          CHOOSE i \in solid : \A j \in solid : i >= j)

\* C15: load_file returns, in the order of the file, exactly the lines it
\* read that are non-empty once stripped and do not then start with '#',
\* each of them stripped.
C15_SkipsCommentsAndEmpty ==
    (hOp = "load_file" /\ hPc = "returned") =>
        LET lines == hFile.lines
            n == IF ~hFile.exists THEN 0
                 ELSE IF hFile.errAt \in 1..Len(lines) THEN hFile.errAt - 1
                 ELSE Len(lines)
            kept == {i \in 1..n : /\ Stripped(lines[i]) # <<>>
                                  /\ Stripped(lines[i])[1] # "#"}
        IN  /\ Len(hSentences) = Cardinality(kept)
            /\ \A i \in kept :
                  hSentences[1 + Cardinality({h \in kept : h < i})]
                     = Stripped(lines[i])
            /\ \A j \in 1..Len(hSentences) :
                  hSentences[j] # <<>> /\ hSentences[j][1] # "#"
\* A file of an indented line and a comment was read to its end: the line is
\* returned stripped, the comment is not.
C15_Witness ==
    /\ hOp = "load_file"
    /\ hPc = "returned"
    /\ hCaught = "none"
    /\ hFile.lines = << <<" ", "b", " ", "\n">>, <<" ", "#", "\n">> >>
    /\ hSentences = << <<"b">> >>

\* ========================================================== claims, SpecData

\* What load_file is to return for a file: nothing if it is missing, else the
\* kept lines among those read before the read error, if there is one.
ExpectedSentences(file) ==
    IF ~file.exists THEN <<>>
    ELSE LET n == IF file.errAt \in 1..Len(file.lines) THEN file.errAt - 1
                   ELSE Len(file.lines)
         IN  SelectSeq([i \in 1..n |-> Strip(file.lines[i])], KeepLine)

\* C8: load_english_data and load_japanese_data never raise and return a
\* mapping with exactly their four category keys, whatever the files are; a
\* missing file gives an empty list for its category, a read error gives the
\* sentences collected before it, and every other category is loaded in full.
C8_LoadersTotal ==
    dResult.op \in {"load_english_data", "load_japanese_data"} =>
        /\ ~dResult.raised
        /\ DOMAIN dResult.data =
              IF dResult.op = "load_english_data"
              THEN {"common_phrases", "technical_terms", "conversational",
                    "formal_writing"}
              ELSE {"common_phrases", "business_japanese", "conversational",
                    "mixed_language"}
        /\ \A c \in DOMAIN dResult.data :
              dResult.data[c] = ExpectedSentences(dFiles[<<dResult.lang, c>>])
\* The first category file breaks at its second line: its first sentence is
\* returned, and the categories after it are loaded.
C8_Witness ==
    /\ dResult.op = "load_english_data"
    /\ dFiles[<<"english", "common_phrases">>].errAt = 2
    /\ dResult.data["common_phrases"] = << <<"e">> >>
    /\ dResult.data["formal_writing"] = << <<"s">> >>

\* C10: two calls of get_train_val_split with the same language and val_ratio
\* on the same files return the same train and validation lists, in the same
\* order, whatever the global generator's state was before each call.
C10_Reproducible ==
    (/\ dResult.op = "get_train_val_split"
     /\ dPrev.op = "get_train_val_split"
     /\ dResult.lang = dPrev.lang
     /\ dResult.ratio = dPrev.ratio)
    => /\ dResult.raised = dPrev.raised
       /\ dResult.train = dPrev.train
       /\ dResult.val = dPrev.val
\* Two such calls have returned a split of five sentences with both parts
\* non-empty.
C10_Witness ==
    /\ dResult.op = "get_train_val_split"
    /\ dPrev.op = "get_train_val_split"
    /\ dResult.lang = dPrev.lang
    /\ dResult.ratio = dPrev.ratio
    /\ Len(dResult.val) = 2
    /\ Len(dResult.train) = 3

\* Occurrences of x in the list q
CountIn(q, x) == Cardinality({i \in 1..Len(q) : q[i] = x})

\* C14: get_train_val_split partitions the n sentences of get_all_sentences:
\* the validation list has floor(n * r) of them, the training list the other
\* n - floor(n * r), and validation followed by training has every sentence
\* as often as the list of get_all_sentences has it.
C14_SplitPartitions ==
    (dResult.op = "get_train_val_split" /\ ~dResult.raised) =>
        LET cats == IF dResult.lang = "english"
                    THEN <<"common_phrases", "technical_terms",
                           "conversational", "formal_writing">>
                    ELSE <<"common_phrases", "business_japanese",
                           "conversational", "mixed_language">>
            all == ExpectedSentences(dFiles[<<dResult.lang, cats[1]>>])
                   \o ExpectedSentences(dFiles[<<dResult.lang, cats[2]>>])
                   \o ExpectedSentences(dFiles[<<dResult.lang, cats[3]>>])
                   \o ExpectedSentences(dFiles[<<dResult.lang, cats[4]>>])
            n == Len(all)
            num == dResult.ratio[1]
            den == dResult.ratio[2]
            k == Len(dResult.val)
            both == dResult.val \o dResult.train
        IN  /\ k * den <= n * num /\ n * num < (k + 1) * den
            /\ Len(dResult.train) = n - k
            /\ \A x \in Range(all) \cup Range(both) :
                  CountIn(both, x) = CountIn(all, x)
\* Five sentences were split in half: two for validation, three for training,
\* and not in the order they were loaded in.
C14_Witness ==
    /\ dResult.op = "get_train_val_split"
    /\ dResult.ratio = <<1, 2>>
    /\ Len(dResult.val) = 2
    /\ Len(dResult.train) = 3
    /\ dResult.lang = "english"
    /\ Len(dFiles[<<"english", "common_phrases">>].lines) = 4
    /\ dResult.val \o dResult.train
          # << <<"b">>, <<"d">>, <<"r">>, <<"q">>, <<"s">> >>

\* ====================================================== claims, SpecLanguage

\* C11: get_all_sentences, get_train_val_split and get_statistics raise
\* ValueError for a language other than 'english' and 'japanese' and open no
\* file; ModelTrainer(language) raises ValueError for such a language; for a
\* supported language get_all_sentences returns the four category lists
\* concatenated in category order.
C11_UnsupportedLanguage ==
    LET supported == dResult.lang \in {"english", "japanese"}
        File(c) == dFiles[<<dResult.lang, c>>]
    IN  /\ (/\ dResult.op \in {"get_all_sentences", "get_train_val_split",
                               "get_statistics"}
            /\ ~supported)
           => (dResult.raised /\ dResult.exc = "ValueError" /\ dResult.read = {})
        /\ (dResult.op = "ModelTrainer" /\ ~supported)
           => (dResult.raised /\ dResult.exc = "ValueError")
        /\ (dResult.op = "ModelTrainer" /\ supported) => ~dResult.raised
        /\ (dResult.op = "get_all_sentences" /\ dResult.lang = "english")
           => /\ ~dResult.raised
              /\ dResult.sentences =
                    ExpectedSentences(File("common_phrases"))
                    \o ExpectedSentences(File("technical_terms"))
                    \o ExpectedSentences(File("conversational"))
                    \o ExpectedSentences(File("formal_writing"))
        /\ (dResult.op = "get_all_sentences" /\ dResult.lang = "japanese")
           => /\ ~dResult.raised
              /\ dResult.sentences =
                    ExpectedSentences(File("common_phrases"))
                    \o ExpectedSentences(File("business_japanese"))
                    \o ExpectedSentences(File("conversational"))
                    \o ExpectedSentences(File("mixed_language"))
\* get_all_sentences('both') has raised ValueError.
C11_Witness ==
    /\ dResult.op = "get_all_sentences"
    /\ dResult.lang = "both"
    /\ dResult.raised
    /\ dResult.exc = "ValueError"

\* ===================================================== claims, SpecTokenizer

\* Occurrences of a character in a list of texts
RECURSIVE Occurrences(_, _)
Occurrences(texts, c) ==
    IF texts = <<>> THEN 0
    ELSE Cardinality({i \in 1..Len(Head(texts)) : Head(texts)[i] = c})
         + Occurrences(Tail(texts), c)
\* The characters of a list of texts
CharsOf(texts) == UNION {Range(texts[i]) : i \in 1..Len(texts)}

\* C9: after build_vocab, ids 0 and 1 are '<pad>' and '<unk>'; the kept
\* characters have the ids 2, 3, ... in order of non-increasing frequency (a
\* more frequent character has the smaller id); and the kept characters are
\* the vocab_size - 2 most frequent ones (all of them if there are fewer).
C9_FrequencyRanked ==
    tBuilt =>
        LET kept == DOMAIN tCharToId \ {"<pad>", "<unk>"}
            all == CharsOf(tTexts)
            room == tVocabSize - 2
        IN  /\ tIdToChar[0] = "<pad>" /\ tIdToChar[1] = "<unk>"
            /\ tCharToId["<pad>"] = 0 /\ tCharToId["<unk>"] = 1
            /\ {tCharToId[c] : c \in kept} = 2..(Cardinality(kept) + 1)
            /\ DOMAIN tIdToChar = 0..(Cardinality(kept) + 1)
            /\ \A c \in kept : tIdToChar[tCharToId[c]] = c
            /\ \A c, d \in kept :
                  Occurrences(tTexts, c) > Occurrences(tTexts, d)
                  => tCharToId[c] < tCharToId[d]
            /\ kept \subseteq all
            /\ Cardinality(kept) =
                  IF Cardinality(all) < room THEN Cardinality(all) ELSE room
            /\ \A c \in kept, d \in all \ kept :
                  Occurrences(tTexts, c) >= Occurrences(tTexts, d)
\* A table was built, with room for two characters, from texts of three
\* characters in which the most frequent comes last: it has id 2, and of the
\* two equally rare ones the one counted first is kept.
C9_Witness ==
    /\ tBuilt
    /\ tVocabSize = 4
    /\ tTexts = << <<"b", "a">>, <<"c", "c">> >>
    /\ tCharToId["c"] = 2
    /\ DOMAIN tCharToId = {"<pad>", "<unk>", "c", "b"}

\* ======================================================== claims, SpecEncode

\* C12 as stated: an item's labels are its input_ids shifted by one position,
\* and the logits of position t are scored against the token at position
\* t + 1.
C12_LabelsShifted ==
    tOut.op = "train_step" =>
        \A t \in 1..(Len(tOut.input_ids) - 1) :
            /\ tOut.labels[t] = tOut.input_ids[t + 1]
            /\ tOut.scored[t] = tOut.input_ids[t + 1]

\* C16: encode returns exactly max_length ids (max_length >= 0): the ids of
\* the first max_length characters of a longer text, else the ids of all the
\* characters followed by pad id 0; a character that is not in the table has
\* unk id 1.
C16_EncodeTruncatesOrPads ==
    tOut.op = "encode" =>
        /\ Len(tOut.ids) = tOut.max_length
        /\ \A i \in 1..tOut.max_length :
              tOut.ids[i] =
                 IF i > Len(tOut.text) THEN 0
                 ELSE IF tOut.text[i] \in DOMAIN tCharToId
                 THEN tCharToId[tOut.text[i]]
                 ELSE 1
\* A text of two characters of the table was encoded to three ids, the last
\* one the pad id.
C16_Witness ==
    /\ tOut.op = "encode"
    /\ tOut.text = <<"b", "a">>
    /\ tOut.max_length = 3
    /\ tOut.ids[1] > 1 /\ tOut.ids[2] > 1
    /\ tOut.ids[3] = 0

\* ========================================================= claims, SpecTrain

\* C13 as stated: when train_tiny_model returns from a call that started with
\* no checkpoint on disk and num_epochs >= 1, the checkpoint in tiny_final is
\* the one saved at the first epoch that attains the minimum validation loss
\* and best_val_loss is that minimum; during the call best_val_loss never
\* increases and the checkpoint is written only on a strict improvement.
C13_BestCheckpoint ==
    /\ (trPc = "returned" /\ trFresh /\ trNum >= 1)
       => \E first \in 1..trNum :
             /\ trLosses[first] # NaN
             /\ \A e \in 1..trNum : ~Less(trLosses[e], trLosses[first])
             /\ \A e \in 1..(first - 1) : trLosses[e] # trLosses[first]
             /\ trDisk = [by |-> "this", epoch |-> first]
             /\ BestValLoss = trLosses[first]
    /\ \A e \in 2..Len(trBest) : trBest[e] <= trBest[e - 1]
    /\ \A i \in 1..Len(trSaves) :
          Less(trLosses[trSaves[i]],
               IF trSaves[i] = 1 THEN InfLoss ELSE trBest[trSaves[i] - 1])

====
